---- MODULE Spec2Model ----
(***************************************************************************)
(* A model of the shpiller compiler: the Tokenizer (src/src/tokenizer.rs), *)
(* the Parser (src/src/parser.rs), the Generator (src/src/generator.rs)    *)
(* and the driver main (src/src/main.rs).                                  *)
(*                                                                         *)
(* Text (String, Vec<char>) is a sequence of one-character strings.  An    *)
(* integer of the program (i64, i32) is a sign and a canonical sequence of *)
(* decimal digits, so that the full 64-bit range is represented.  A Rust   *)
(* Option is a sequence of length 0 (None) or 1 (Some).                    *)
(***************************************************************************)
EXTENDS Integers, Sequences, FiniteSets, TLC

VARIABLES
    src,           \* Tokenizer.src: the source text
    pc,            \* position of the pipeline
    tokens,        \* Parser.tokens: the token sequence
    index,         \* Parser.index: the cursor (0-based, as in the code)
    symbol_table,  \* Parser.symbol_table: name -> value
    exit_node,     \* parse's local exit_node: Option<NodeExit>
    root,          \* what parse returned / Generator.root: Option<NodeExit>
    asm,           \* what Generator::generate returned
    panic,         \* Option: the panic that aborted the run
    args,          \* driver: the command line, args[1] the program name
    file,          \* driver: Option<text>, the content of the file (None: unreadable)
    d_pc,          \* driver: the statement main is about to execute
    file_content,  \* driver: main's local file_content
    d_tokens,      \* driver: main's local tokens
    d_asm,         \* driver: main's local asm
    out_file,      \* driver: Option<text>, the content of the .asm file
    nasm_status,   \* driver: Option, the status of the assembler's run
    ld_status,     \* driver: Option, the status of the linker's run
    d_result       \* driver: Option, what main returned

pipe_vars == <<src, pc, tokens, index, symbol_table, exit_node, root, asm, panic>>
driver_vars == <<args, file, d_pc, file_content, d_tokens, d_asm, out_file,
                 nasm_status, ld_status, d_result>>
vars == <<src, pc, tokens, index, symbol_table, exit_node, root, asm, panic,
          args, file, d_pc, file_content, d_tokens, d_asm, out_file,
          nasm_status, ld_status, d_result>>

None == <<>>
Some(v) == <<v>>

(***************************************************************************)
(* Text                                                                    *)
(***************************************************************************)
KwExit == <<"e", "x", "i", "t">>
KwLet == <<"l", "e", "t">>
KwReturn == <<"r", "e", "t", "u", "r", "n">>

DigitChars == <<"0", "1", "2", "3", "4", "5", "6", "7", "8", "9">>

IsDigit(ch) == \E d \in 1..10 : DigitChars[d] = ch

DigitOf(ch) == (CHOOSE d \in 1..10 : DigitChars[d] = ch) - 1

\* char::is_whitespace, on the characters of the model's alphabet
IsWhitespace(ch) == ch \in {" ", "\t", "\n", "\r"}

\* str::trim: the text between its first and its last character that is
\* not white space
Trim(s) ==
    LET keep == {i \in 1..Len(s) : ~IsWhitespace(s[i])}
    IN  IF keep = {} THEN <<>>
        ELSE SubSeq(s, CHOOSE i \in keep : \A k \in keep : i <= k,
                       CHOOSE j \in keep : \A k \in keep : k <= j)

(***************************************************************************)
(* Integers: [neg, mag], mag the decimal digits of the magnitude without   *)
(* leading zeros (<<0>> for zero, which is never negative).                *)
(***************************************************************************)
Int64(neg, mag) == [neg |-> neg, mag |-> mag]

Zero == Int64(FALSE, <<0>>)

\* i64::MAX = 9223372036854775807, and the magnitude of i64::MIN
I64MaxMag == <<9, 2, 2, 3, 3, 7, 2, 0, 3, 6, 8, 5, 4, 7, 7, 5, 8, 0, 7>>
I64MinMag == <<9, 2, 2, 3, 3, 7, 2, 0, 3, 6, 8, 5, 4, 7, 7, 5, 8, 0, 8>>
\* i32::MAX = 2147483647, and the magnitude of i32::MIN
I32MaxMag == <<2, 1, 4, 7, 4, 8, 3, 6, 4, 7>>
I32MinMag == <<2, 1, 4, 7, 4, 8, 3, 6, 4, 8>>

\* the digits without their leading zeros
StripZeros(ds) ==
    LET nonzero == {i \in 1..Len(ds) : ds[i] # 0}
    IN  IF nonzero = {} THEN <<0>>
        ELSE SubSeq(ds, CHOOSE i \in nonzero : \A k \in nonzero : i <= k, Len(ds))

\* a <= b on canonical magnitudes
MagLeq(a, b) ==
    \/ Len(a) < Len(b)
    \/ /\ Len(a) = Len(b)
       /\ \/ a = b
          \/ \E i \in 1..Len(a) :
                 a[i] < b[i] /\ \A k \in 1..(i - 1) : a[k] = b[k]

\* <iN as FromStr>::from_str: an optional sign, then one or more decimal
\* digits, checked against the type's range (maxMag, minMag); Option<int>
ParseInt(s, maxMag, minMag) ==
    IF s = <<>> THEN None
    ELSE LET signed == Head(s) \in {"+", "-"}
             neg == Head(s) = "-"
             digits == IF signed THEN Tail(s) ELSE s
         IN  IF digits = <<>> \/ \E i \in 1..Len(digits) : ~IsDigit(digits[i])
             THEN None
             ELSE LET mag == StripZeros([i \in 1..Len(digits) |-> DigitOf(digits[i])])
                  IN  IF neg
                      THEN IF MagLeq(mag, minMag)
                           THEN Some(Int64(mag # <<0>>, mag))
                           ELSE None
                      ELSE IF MagLeq(mag, maxMag)
                           THEN Some(Int64(FALSE, mag))
                           ELSE None

\* current_token.parse::<i64>()
ParseI64(s) == ParseInt(s, I64MaxMag, I64MinMag)

\* current_token.parse::<i32>()
ParseI32(s) == ParseInt(s, I32MaxMag, I32MinMag)

\* Display for an integer: format!("{}", v), v.to_string()
FormatInt(v) ==
    (IF v.neg THEN <<"-">> ELSE <<>>)
        \o [i \in 1..Len(v.mag) |-> DigitChars[v.mag[i] + 1]]

(***************************************************************************)
(* Tokenizer (src/src/tokenizer.rs)                                        *)
(***************************************************************************)
\* enum Token; value is read only of an IntLiteral, name only of an Identifier
Token(kind) == [kind |-> kind, value |-> Zero, name |-> <<>>]
IntLiteral(v) == [kind |-> "IntLiteral", value |-> v, name |-> <<>>]
Identifier(n) == [kind |-> "Identifier", value |-> Zero, name |-> n]

\* the first match arm of tokenize's loop
IsDelimiter(ch) == ch \in {" ", ";", "(", ")", "=", "\n"}

\* the classification of a non-empty current_token
Classify(current_token) ==
    IF current_token = KwExit THEN Token("Exit")
    ELSE IF current_token = KwLet THEN Token("Let")
    ELSE IF ParseI64(current_token) # None
         THEN IntLiteral(ParseI64(current_token)[1])
         ELSE Identifier(Trim(current_token))

Flush(toks, current_token) ==
    IF current_token # <<>> THEN Append(toks, Classify(current_token)) ELSE toks

\* the inner match of the delimiter arm
PushPunctuation(toks, ch) ==
    CASE ch = ";" -> Append(toks, Token("Semicolon"))
      [] ch = "(" -> Append(toks, Token("OpenParen"))
      [] ch = ")" -> Append(toks, Token("CloseParen"))
      [] ch = "=" -> Append(toks, Token("Equals"))
      [] OTHER -> toks

\* one turn of the loop over self.src on (tokens, current_token), pos being
\* the place of the iterator
TokenizeChar(st, ch) ==
    IF IsDelimiter(ch)
    THEN [pos |-> st.pos + 1,
          tokens |-> PushPunctuation(Flush(st.tokens, st.current_token), ch),
          current_token |-> <<>>]
    ELSE [pos |-> st.pos + 1,
          tokens |-> st.tokens,
          current_token |-> Append(st.current_token, ch)]

\* the turns of the loop from the iterator's place st.pos up to position hi;
\* they are taken half by half, which keeps the evaluation shallow
RECURSIVE TokenizeLoop(_, _, _)
TokenizeLoop(text, hi, st) ==
    IF st.pos > hi THEN st
    ELSE IF st.pos = hi THEN TokenizeChar(st, text[hi])
    ELSE TokenizeLoop(text, hi, TokenizeLoop(text, (st.pos + hi) \div 2, st))

\* Tokenizer::tokenize
tokenize(text) ==
    LET st == TokenizeLoop(text, Len(text),
                  [pos |-> 1, tokens |-> <<>>, current_token |-> <<>>])
    IN  Flush(st.tokens, st.current_token)

(***************************************************************************)
(* Parser (src/src/parser.rs)                                              *)
(***************************************************************************)
NodeExpr(v) == [int_value |-> v]
NodeExit(e) == [expr |-> e]

\* a panic: its message and, for an undefined variable, the name it formats
Panic(msg) == Some([msg |-> msg, name |-> <<>>])

ExpectedIdentifier == "Expected identifier for variable name."
ExpectedEquals == "Expected equals sign after identifier."
ExpectedInteger == "Expected an integer after equals sign."
ExpectedOpenParen == "Expected an open parenthesis after 'exit'."
ExpectedCloseParen == "Expected a close parenthesis after expression."
UndefinedVariable == "Undefined variable: {}"
\* the panics of the Rust runtime: a slice index past the end, unwrap of None
IndexOutOfBounds == "index out of bounds"
UnwrapNone == "called Option::unwrap() on a None value"

\* Parser::peek
peek(toks, idx, ahead) ==
    IF idx + ahead >= Len(toks) THEN None ELSE Some(toks[idx + ahead + 1])

\* Parser::peek_current
peek_current(toks, idx) == peek(toks, idx, 0)

\* Parser::consume: the cursor moves first, then tokens[index - 1] is read;
\* token = None stands for the panic of that read past the end
consume(toks, idx) ==
    [index |-> idx + 1,
     token |-> IF idx + 1 - 1 < Len(toks) THEN Some(toks[idx + 1]) ELSE None]

\* match self.consume() { Token::<kind> => .., _ => panic!(msg) }
MatchConsumed(c, kind, msg) ==
    IF c.token = None THEN Panic(IndexOutOfBounds)
    ELSE IF c.token[1].kind # kind THEN Panic(msg)
    ELSE None

\* Insert with the binding dropped
InsertNothing(table, key, value) == table

\* Insert that keeps the value a name already has
InsertKeepFirst(table, key, value) ==
    [n \in DOMAIN table \cup {key} |->
        IF n \in DOMAIN table THEN table[n] ELSE value]

\* HashMap::insert
Insert(table, key, value) ==
    [n \in DOMAIN table \cup {key} |-> IF n = key THEN value ELSE table[n]]

\* Parser::parse_assignment on (tokens, index, symbol_table)
parse_assignment(toks, idx, table) ==
    LET c0 == consume(toks, idx)
        c1 == consume(toks, c0.index)
        c2 == consume(toks, c1.index)
        c3 == consume(toks, c2.index)
        p1 == MatchConsumed(c1, "Identifier", ExpectedIdentifier)
        p2 == MatchConsumed(c2, "Equals", ExpectedEquals)
        p3 == MatchConsumed(c3, "IntLiteral", ExpectedInteger)
    IN  IF c0.token = None
        THEN [index |-> c0.index, symbol_table |-> table,
              panic |-> Panic(IndexOutOfBounds)]
        ELSE IF p1 # None
        THEN [index |-> c1.index, symbol_table |-> table, panic |-> p1]
        ELSE IF p2 # None
        THEN [index |-> c2.index, symbol_table |-> table, panic |-> p2]
        ELSE IF p3 # None
        THEN [index |-> c3.index, symbol_table |-> table, panic |-> p3]
        ELSE [index |-> c3.index,
              symbol_table |-> Insert(table, c1.token[1].name, c3.token[1].value),
              panic |-> None]

\* Lookup that resolves an unbound name to 0
LookupOrDefault(table, name) ==
    IF name \in DOMAIN table THEN Some(NodeExpr(table[name]))
    ELSE Some(NodeExpr(Zero))

\* the lookup of parse_expression's Identifier arm: Option<NodeExpr>
Lookup(table, name) ==
    IF name \in DOMAIN table THEN Some(NodeExpr(table[name])) ELSE None

\* Parser::parse_expression on (tokens, index, symbol_table)
parse_expression(toks, idx, table) ==
    LET t == peek_current(toks, idx)
    IN  IF t # None /\ t[1].kind = "IntLiteral"
        THEN [index |-> consume(toks, idx).index,
              expr |-> Some(NodeExpr(t[1].value)), panic |-> None]
        ELSE IF t # None /\ t[1].kind = "Identifier"
        THEN [index |-> consume(toks, idx).index,
              expr |-> Lookup(table, t[1].name),
              panic |-> IF Lookup(table, t[1].name) # None THEN None
                        ELSE Some([msg |-> UndefinedVariable, name |-> t[1].name])]
        ELSE [index |-> idx, expr |-> None, panic |-> None]

\* the assignment to exit_node with the first exit statement kept
KeepFirstExitNode(node, expr) ==
    IF node # None THEN node ELSE Some(NodeExit(expr[1]))

\* exit_node = Some(NodeExit { expr: expr.unwrap() }), the unwrap having succeeded
SetExitNode(node, expr) == Some(NodeExit(expr[1]))

\* the Token::Exit arm of parse's loop on (tokens, index, symbol_table, exit_node)
parse_exit(toks, idx, table, node) ==
    LET c0 == consume(toks, idx)
        c1 == consume(toks, c0.index)
        p1 == MatchConsumed(c1, "OpenParen", ExpectedOpenParen)
        e  == parse_expression(toks, c1.index, table)
        c2 == consume(toks, e.index)
        p2 == MatchConsumed(c2, "CloseParen", ExpectedCloseParen)
    IN  IF c0.token = None
        THEN [index |-> c0.index, exit_node |-> node,
              panic |-> Panic(IndexOutOfBounds)]
        ELSE IF p1 # None
        THEN [index |-> c1.index, exit_node |-> node, panic |-> p1]
        ELSE IF e.panic # None
        THEN [index |-> e.index, exit_node |-> node, panic |-> e.panic]
        ELSE IF p2 # None
        THEN [index |-> c2.index, exit_node |-> node, panic |-> p2]
        ELSE IF e.expr = None
        THEN [index |-> c2.index, exit_node |-> node, panic |-> Panic(UnwrapNone)]
        ELSE [index |-> c2.index, exit_node |-> SetExitNode(node, e.expr),
              panic |-> None]

\* parse_other with the cursor left where it is
parse_other_stuck(toks, idx) == [index |-> idx, panic |-> None]

\* the _ arm of parse's loop
parse_other(toks, idx) ==
    LET c == consume(toks, idx)
    IN  [index |-> c.index,
         panic |-> IF c.token = None THEN Panic(IndexOutOfBounds) ELSE None]

\* parse_return without the default node
parse_return_none(node) == node

\* the value parse returns once its loop has ended
parse_return(node) ==
    IF node # None THEN node ELSE Some(NodeExit(NodeExpr(Zero)))

\* one turn of parse's while let Some(token) = self.peek_current() on the
\* parser's state p = [index, symbol_table, exit_node, panic]
ParseIteration(toks, p) ==
    LET kind == peek_current(toks, p.index)[1].kind
    IN  IF kind = "Let"
        THEN LET r == parse_assignment(toks, p.index, p.symbol_table)
             IN  [index |-> r.index, symbol_table |-> r.symbol_table,
                  exit_node |-> p.exit_node, panic |-> r.panic]
        ELSE IF kind = "Exit"
        THEN LET r == parse_exit(toks, p.index, p.symbol_table, p.exit_node)
             IN  [index |-> r.index, symbol_table |-> p.symbol_table,
                  exit_node |-> r.exit_node, panic |-> r.panic]
        ELSE LET r == parse_other(toks, p.index)
             IN  [index |-> r.index, symbol_table |-> p.symbol_table,
                  exit_node |-> p.exit_node, panic |-> r.panic]

\* Parser::new
ParserNew == [index |-> 0, symbol_table |-> <<>>, exit_node |-> None, panic |-> None]

RECURSIVE ParseLoop(_, _)
ParseLoop(toks, p) ==
    IF p.panic # None THEN [root |-> None, panic |-> p.panic]
    ELSE IF peek_current(toks, p.index) = None
    THEN [root |-> parse_return(p.exit_node), panic |-> None]
    ELSE ParseLoop(toks, ParseIteration(toks, p))

\* Parser::new(tokens).parse(): the node returned, or the panic
parse(toks) == ParseLoop(toks, ParserNew)

(***************************************************************************)
(* Generator (src/src/generator.rs)                                        *)
(***************************************************************************)
GenerateHead ==
    <<"g", "l", "o", "b", "a", "l", " ", "_", "s", "t", "a", "r", "t", "\n",
      "_", "s", "t", "a", "r", "t", ":", "\n", " ", " ", " ", " ", "m", "o",
      "v", " ", "r", "a", "x", ",", " ", "6", "0", "\n", " ", " ", " ", " ",
      "m", "o", "v", " ", "r", "d", "i", ",", " ">>

GenerateTail ==
    <<" ", "\n", " ", " ", " ", " ", "s", "y", "s", "c", "a", "l", "l", "\n">>

\* Generator::generate
generate(node) == GenerateHead \o FormatInt(node.expr.int_value) \o GenerateTail

\* Tokenizer, Parser and Generator in order: Option, the text generated
Compile(text) ==
    LET r == parse(tokenize(text))
    IN  IF r.panic # None THEN None ELSE Some(generate(r.root[1]))

(***************************************************************************)
(* Driver (src/src/main.rs): its own tokenize and tokens_to_asm            *)
(***************************************************************************)
\* the classification of a non-empty current_token in main.rs's tokenize:
\* a token that is neither the keyword nor an i32 is dropped
MainFlush(toks, current_token) ==
    IF current_token = <<>> THEN toks
    ELSE IF current_token = KwReturn THEN Append(toks, Token("Return"))
    ELSE IF ParseI32(current_token) # None
         THEN Append(toks, IntLiteral(ParseI32(current_token)[1]))
         ELSE toks

\* one turn of the loop of main.rs's tokenize, pos being the place of the
\* iterator
MainTokenizeChar(st, ch) ==
    IF ch \in {" ", ";"}
    THEN LET flushed == MainFlush(st.tokens, st.current_token)
         IN  [pos |-> st.pos + 1,
              tokens |-> IF ch = ";" THEN Append(flushed, Token("Semicolon"))
                         ELSE flushed,
              current_token |-> <<>>]
    ELSE [pos |-> st.pos + 1,
          tokens |-> st.tokens,
          current_token |-> Append(st.current_token, ch)]

\* the turns of the loop from the iterator's place st.pos up to position hi,
\* taken half by half
RECURSIVE MainTokenizeLoop(_, _, _)
MainTokenizeLoop(text, hi, st) ==
    IF st.pos > hi THEN st
    ELSE IF st.pos = hi THEN MainTokenizeChar(st, text[hi])
    ELSE MainTokenizeLoop(text, hi, MainTokenizeLoop(text, (st.pos + hi) \div 2, st))

\* main.rs: fn tokenize
main_tokenize(text) ==
    LET st == MainTokenizeLoop(text, Len(text),
                  [pos |-> 1, tokens |-> <<>>, current_token |-> <<>>])
    IN  MainFlush(st.tokens, st.current_token)

AsmPrologue ==
    <<"g", "l", "o", "b", "a", "l", " ", "_", "s", "t", "a", "r", "t", "\n",
      "_", "s", "t", "a", "r", "t", ":", "\n">>

AsmReturn ==
    <<" ", " ", " ", " ", "m", "o", "v", " ", "r", "a", "x", ",", " ", "6",
      "0", "\n", " ", " ", " ", " ", "m", "o", "v", " ", "r", "d", "i", ",",
      " ">>

AsmSemicolon ==
    <<"\n", " ", " ", " ", " ", "s", "y", "s", "c", "a", "l", "l", "\n">>

\* the closure tokens_to_asm maps over the tokens
TokenAsm(token) ==
    CASE token.kind = "Return" -> AsmReturn
      [] token.kind = "IntLiteral" -> FormatInt(token.value)
      [] token.kind = "Semicolon" -> AsmSemicolon

RECURSIVE FoldAsm(_, _)
FoldAsm(toks, st) ==
    IF st.pos > Len(toks) THEN st.out
    ELSE FoldAsm(toks, [pos |-> st.pos + 1, out |-> st.out \o TokenAsm(toks[st.pos])])

\* main.rs: fn tokens_to_asm
tokens_to_asm(toks) == FoldAsm(toks, [pos |-> 1, out |-> AsmPrologue])

Err(msg) == Some([ok |-> FALSE, msg |-> msg])
Ok == Some([ok |-> TRUE, msg |-> ""])

(***************************************************************************)
(* Inputs                                                                  *)
(***************************************************************************)
MaxFrags == 3

One == Int64(FALSE, <<1>>)
Two == Int64(FALSE, <<2>>)

Values ==
    {Zero, One, Int64(TRUE, <<1>>), Int64(FALSE, <<5>>), Int64(FALSE, <<2, 5, 6>>),
     Int64(FALSE, I64MaxMag), Int64(TRUE, I64MinMag)}

NameX == <<"x">>
NameY == <<"y">>

Names == {NameX, NameY, <<"l", "e">>, <<"e", "x", "i", "t", "1">>, <<"-", "y">>}

\* the source text  let x = v; exit(x);
LetExitSrc(x, v) ==
    KwLet \o <<" ">> \o x \o <<" ", "=", " ">> \o FormatInt(v) \o <<";", " ">>
        \o KwExit \o <<"(">> \o x \o <<")", ";">>

\* the source text  exit(v);
ExitSrc(v) == KwExit \o <<"(">> \o FormatInt(v) \o <<")", ";">>

\* the source text  return v;
ReturnSrc(v) == KwReturn \o <<" ">> \o FormatInt(v) \o <<";">>

LetText(x, lit) == KwLet \o <<" ">> \o x \o <<"=">> \o lit \o <<";">>
ExitText(operand) == KwExit \o <<"(">> \o operand \o <<")", ";">>

\* the pieces a source text is put together from: whole statements, single
\* lexemes, statements cut short, and characters that are not delimiters
Fragments ==
    << LetText(NameX, <<"1">>),
       LetText(NameX, <<"2">>),
       LetText(NameY, <<"1">>),
       ExitText(NameX),
       ExitText(NameY),
       ExitText(<<"2">>) \o <<"\n">>,
       KwLet \o <<" ">>,
       KwLet \o <<" ">> \o NameX \o <<"=">>,
       KwExit,
       KwExit \o <<"(">>,
       KwExit \o <<"(", "1">>,
       NameX,
       <<"1">>,
       <<"(">>,
       <<")">>,
       <<"=">>,
       <<";">>,
       <<" ">>,
       <<"\r">>,
       <<"\t">>,
       <<"-">> >>

RECURSIVE Concat(_, _)
Concat(f, i) ==
    IF i > Len(f) THEN <<>> ELSE Fragments[f[i]] \o Concat(f, i + 1)

(***************************************************************************)
(* The pipeline Tokenizer -> Parser -> Generator as a state machine        *)
(***************************************************************************)
DriverIdle ==
    /\ args = <<>>
    /\ file = None
    /\ d_pc = "idle"
    /\ file_content = <<>>
    /\ d_tokens = <<>>
    /\ d_asm = <<>>
    /\ out_file = None
    /\ nasm_status = None
    /\ ld_status = None
    /\ d_result = None

\* the Tokenizer has been constructed with a source text
Init ==
    /\ \/ \E n \in 0..MaxFrags : \E f \in [1..n -> 1..Len(Fragments)] :
              src = Concat(f, 1)
       \/ \E x \in Names, v \in Values : src = LetExitSrc(x, v)
       \/ \E v \in Values : src = ExitSrc(v)
    /\ pc = "tokenize"
    /\ tokens = <<>>
    /\ index = 0
    /\ symbol_table = <<>>
    /\ exit_node = None
    /\ root = None
    /\ asm = <<>>
    /\ panic = None
    /\ DriverIdle

\* Tokenizer::new(src).tokenize()
Tokenize ==
    /\ pc = "tokenize"
    /\ tokens' = tokenize(src)
    /\ pc' = "parser_new"
    /\ UNCHANGED <<src, index, symbol_table, exit_node, root, asm, panic>>
    /\ UNCHANGED driver_vars

\* Parser::new(tokens)
NewParser ==
    /\ pc = "parser_new"
    /\ index' = ParserNew.index
    /\ symbol_table' = ParserNew.symbol_table
    /\ exit_node' = ParserNew.exit_node
    /\ pc' = "parse"
    /\ UNCHANGED <<src, tokens, root, asm, panic>>
    /\ UNCHANGED driver_vars

AtKind(kind) ==
    /\ pc = "parse"
    /\ peek_current(tokens, index) # None
    /\ peek_current(tokens, index)[1].kind = kind

\* parse's loop: the Token::Let arm
ParseLet ==
    /\ AtKind("Let")
    /\ LET r == parse_assignment(tokens, index, symbol_table)
       IN  /\ index' = r.index
           /\ symbol_table' = r.symbol_table
           /\ panic' = r.panic
           /\ pc' = IF r.panic = None THEN "parse" ELSE "panicked"
    /\ UNCHANGED <<src, tokens, exit_node, root, asm>>
    /\ UNCHANGED driver_vars

\* parse's loop: the Token::Exit arm
ParseExit ==
    /\ AtKind("Exit")
    /\ LET r == parse_exit(tokens, index, symbol_table, exit_node)
       IN  /\ index' = r.index
           /\ exit_node' = r.exit_node
           /\ panic' = r.panic
           /\ pc' = IF r.panic = None THEN "parse" ELSE "panicked"
    /\ UNCHANGED <<src, tokens, symbol_table, root, asm>>
    /\ UNCHANGED driver_vars

\* parse's loop: the arm of every other token
ParseOther ==
    /\ pc = "parse"
    /\ peek_current(tokens, index) # None
    /\ peek_current(tokens, index)[1].kind \notin {"Let", "Exit"}
    /\ LET r == parse_other(tokens, index)
       IN  /\ index' = r.index
           /\ panic' = r.panic
           /\ pc' = IF r.panic = None THEN "parse" ELSE "panicked"
    /\ UNCHANGED <<src, tokens, symbol_table, exit_node, root, asm>>
    /\ UNCHANGED driver_vars

\* parse's loop ends and parse returns
ParseReturn ==
    /\ pc = "parse"
    /\ peek_current(tokens, index) = None
    /\ root' = parse_return(exit_node)
    /\ pc' = "generate"
    /\ UNCHANGED <<src, tokens, index, symbol_table, exit_node, asm, panic>>
    /\ UNCHANGED driver_vars

\* Generator::new(root).generate()
Generate ==
    /\ pc = "generate"
    /\ asm' = generate(root[1])
    /\ pc' = "done"
    /\ UNCHANGED <<src, tokens, index, symbol_table, exit_node, root, panic>>
    /\ UNCHANGED driver_vars

Next ==
    \/ Tokenize
    \/ NewParser
    \/ ParseLet
    \/ ParseExit
    \/ ParseOther
    \/ ParseReturn
    \/ Generate

Spec == Init /\ [][Next]_vars

\* a turn of parse's loop, or its end
ParseStep == ParseLet \/ ParseExit \/ ParseOther \/ ParseReturn

\* the pipeline with parse run as the thread runs it: while parse has a next
\* step, the step is taken
FairSpec == Init /\ [][Next]_vars /\ WF_vars(ParseStep)

(***************************************************************************)
(* The driver main (src/src/main.rs) as a state machine                    *)
(***************************************************************************)
MissingInputFile == "Missing input file"
InputFileIsEmpty == "Input file is empty"
FailedToAssemble == "Failed to assemble the code with NASM."
FailedToLink == "Failed to link the object file."
\* the errors the ? operator passes on from fs and Command
IoError == "io error"

ProgramName == "shpiller"
InputPath == "input.hy"

\* the contents of the source file
DriverSources ==
    {<<>>, <<";">>, KwReturn, <<"\n">>}
        \cup {ExitSrc(v) : v \in Values}
        \cup {ReturnSrc(v) : v \in Values}
        \cup {LetExitSrc(NameX, v) : v \in Values}

PipeIdle ==
    /\ src = <<>>
    /\ pc = "idle"
    /\ tokens = <<>>
    /\ index = 0
    /\ symbol_table = <<>>
    /\ exit_node = None
    /\ root = None
    /\ asm = <<>>
    /\ panic = None

DriverInit ==
    /\ args \in {<<ProgramName>>, <<ProgramName, InputPath>>}
    /\ file \in {None} \cup {Some(t) : t \in DriverSources}
    /\ d_pc = "check_args"
    /\ file_content = <<>>
    /\ d_tokens = <<>>
    /\ d_asm = <<>>
    /\ out_file = None
    /\ nasm_status = None
    /\ ld_status = None
    /\ d_result = None
    /\ PipeIdle

\* main returns
Return(result) ==
    /\ d_result' = result
    /\ d_pc' = "exit"

\* if args.len() < 2 { .. return Err("Missing input file".into()); }
CheckArgs ==
    /\ d_pc = "check_args"
    /\ IF Len(args) < 2
       THEN Return(Err(MissingInputFile))
       ELSE d_pc' = "read_file" /\ UNCHANGED d_result
    /\ UNCHANGED <<args, file, file_content, d_tokens, d_asm, out_file,
                   nasm_status, ld_status>>
    /\ UNCHANGED pipe_vars

\* let file_content = fs::read_to_string(file_path)?;
ReadFile ==
    /\ d_pc = "read_file"
    /\ IF file = None
       THEN Return(Err(IoError)) /\ UNCHANGED file_content
       ELSE file_content' = file[1] /\ d_pc' = "check_empty" /\ UNCHANGED d_result
    /\ UNCHANGED <<args, file, d_tokens, d_asm, out_file, nasm_status, ld_status>>
    /\ UNCHANGED pipe_vars

\* CheckEmpty without the return
CheckEmptyNoReturn ==
    /\ d_pc = "check_empty"
    /\ d_pc' = "tokenize"
    /\ UNCHANGED <<args, file, file_content, d_tokens, d_asm, out_file,
                   nasm_status, ld_status, d_result>>
    /\ UNCHANGED pipe_vars

\* if file_content.is_empty() { return Err("Input file is empty".into()); }
CheckEmpty ==
    /\ d_pc = "check_empty"
    /\ IF file_content = <<>>
       THEN Return(Err(InputFileIsEmpty))
       ELSE d_pc' = "tokenize" /\ UNCHANGED d_result
    /\ UNCHANGED <<args, file, file_content, d_tokens, d_asm, out_file,
                   nasm_status, ld_status>>
    /\ UNCHANGED pipe_vars

\* let tokens = tokenize(&file_content);
MainTokenize ==
    /\ d_pc = "tokenize"
    /\ d_tokens' = main_tokenize(file_content)
    /\ d_pc' = "tokens_to_asm"
    /\ UNCHANGED <<args, file, file_content, d_asm, out_file, nasm_status,
                   ld_status, d_result>>
    /\ UNCHANGED pipe_vars

\* let asm = tokens_to_asm(tokens);
TokensToAsm ==
    /\ d_pc = "tokens_to_asm"
    /\ d_asm' = tokens_to_asm(d_tokens)
    /\ d_pc' = "write"
    /\ UNCHANGED <<args, file, file_content, d_tokens, out_file, nasm_status,
                   ld_status, d_result>>
    /\ UNCHANGED pipe_vars

\* fs::write(out_path.clone(), asm)?;
WriteAsm ==
    /\ d_pc = "write"
    /\ \/ out_file' = Some(d_asm) /\ d_pc' = "nasm" /\ UNCHANGED d_result
       \/ Return(Err(IoError)) /\ UNCHANGED out_file
    /\ UNCHANGED <<args, file, file_content, d_tokens, d_asm, nasm_status,
                   ld_status>>
    /\ UNCHANGED pipe_vars

\* Command::new("nasm")...status()?, then the check of status_nasm.success()
RunNasm ==
    /\ d_pc = "nasm"
    /\ \/ nasm_status' = Some("success") /\ d_pc' = "ld" /\ UNCHANGED d_result
       \/ nasm_status' = Some("failure") /\ Return(Err(FailedToAssemble))
       \/ nasm_status' = Some("not started") /\ Return(Err(IoError))
    /\ UNCHANGED <<args, file, file_content, d_tokens, d_asm, out_file, ld_status>>
    /\ UNCHANGED pipe_vars

\* Command::new("ld")...status()?, then the check of status_ld.success(); Ok(())
RunLd ==
    /\ d_pc = "ld"
    /\ \/ ld_status' = Some("success") /\ Return(Ok)
       \/ ld_status' = Some("failure") /\ Return(Err(FailedToLink))
       \/ ld_status' = Some("not started") /\ Return(Err(IoError))
    /\ UNCHANGED <<args, file, file_content, d_tokens, d_asm, out_file, nasm_status>>
    /\ UNCHANGED pipe_vars

DriverNext ==
    \/ CheckArgs
    \/ ReadFile
    \/ CheckEmpty
    \/ MainTokenize
    \/ TokensToAsm
    \/ WriteAsm
    \/ RunNasm
    \/ RunLd

DriverSpec == DriverInit /\ [][DriverNext]_vars

(***************************************************************************)
(* Properties of the driver, under DriverSpec                              *)
(***************************************************************************)
\* C1: for a source text exit(N); with N a 64-bit integer literal, the text the
\* driver writes to the output file is the Generator's output for the node the
\* Tokenizer and the Parser produce for that source: the entry point that
\* passes N as the status of the exit call.
C1_DriverWritesGeneratedAssembly ==
    \A v \in Values :
        (out_file # None /\ file_content = ExitSrc(v)) =>
            /\ out_file = Compile(file_content)
            /\ out_file = Some(generate(NodeExit(NodeExpr(v))))

\* the run has no source-file argument, or a file that cannot be read, or an
\* empty file
InputError ==
    \/ Len(args) < 2
    \/ file = None
    \/ file = Some(<<>>)

\* C8: a run whose source-file argument is missing, whose file cannot be read
\* or whose file is empty never reaches the tokenizing, writes no assembly
\* file, starts neither the assembler nor the linker, and ends with an error.
C8_InputErrorsStopBeforeCompilation ==
    InputError =>
        /\ d_pc \in {"check_args", "read_file", "check_empty", "exit"}
        /\ d_tokens = <<>>
        /\ d_asm = <<>>
        /\ out_file = None
        /\ nasm_status = None
        /\ ld_status = None
        /\ d_pc = "exit" => (d_result # None /\ ~d_result[1].ok)
        /\ d_pc # "exit" => ENABLED <<DriverNext>>_vars

\* an empty file has been read and main has returned its error
C8_Witness ==
    /\ d_pc = "exit"
    /\ Len(args) = 2
    /\ file = Some(<<>>)
    /\ d_result = Err(InputFileIsEmpty)
    /\ out_file = None

(***************************************************************************)
(* Properties of the pipeline, under Spec.  Positions in tokens are        *)
(* 1-based; index is the number of tokens consumed.                        *)
(***************************************************************************)
KindAt(toks, j) == IF j >= 1 /\ j <= Len(toks) THEN toks[j].kind ELSE "end"

\* the four tokens at j..j+3 are  let name = literal
IsLetAt(toks, j) ==
    /\ KindAt(toks, j) = "Let"
    /\ KindAt(toks, j + 1) = "Identifier"
    /\ KindAt(toks, j + 2) = "Equals"
    /\ KindAt(toks, j + 3) = "IntLiteral"

\* the positions of the let statements that lie within the first k tokens
LetsBefore(toks, k) == {j \in 1..k : IsLetAt(toks, j) /\ j + 3 <= k}

BoundNames(toks, k) == {toks[j + 1].name : j \in LetsBefore(toks, k)}

\* the value of the last let for name within the first k tokens
LastLetValue(toks, k, name) ==
    LET js == {j \in LetsBefore(toks, k) : toks[j + 1].name = name}
        last == CHOOSE j \in js : \A i \in js : i <= j
    IN  toks[last + 3].value

Parsing == pc \in {"parse", "generate", "done"}
Returned == pc \in {"generate", "done"}

\* for each name x and value v: the text let x = v; exit(x); and what the
\* pipeline yields for exit(v);
LetExitCases ==
    {[text |-> LetExitSrc(x, v),
      value |-> v,
      root |-> parse(tokenize(ExitSrc(v))).root,
      asm |-> Compile(ExitSrc(v))] : x \in Names, v \in Values}

\* C2: for a name x and a 64-bit integer v, the pipeline run on
\* let x = v; exit(x);  does not fail, and yields the program node and the
\* assembly text that the pipeline yields for  exit(v);  -- the node holds the
\* integer v itself.
C2_LetBindingIsSubstitution ==
    \A c \in LetExitCases :
        src = c.text =>
            /\ pc # "panicked"
            /\ Returned =>
                /\ root = c.root
                /\ root = Some(NodeExit(NodeExpr(c.value)))
            /\ pc = "done" => Some(asm) = c.asm

\* let x = i64::MIN; exit(x); has been compiled
C2_Witness ==
    /\ pc = "done"
    /\ src = LetExitSrc(NameX, Int64(TRUE, I64MinMag))
    /\ asm = generate(NodeExit(NodeExpr(Int64(TRUE, I64MinMag))))

\* C3: while parsing goes on without an error, the binding table has exactly
\* one entry for each name bound by a let statement consumed so far, holding
\* the value of the last of them; and an exit statement just consumed whose
\* operand is a name has resolved it to the value of the last let of that
\* name before it.
C3_LastWriteWins ==
    Parsing =>
        /\ DOMAIN symbol_table = BoundNames(tokens, index)
        /\ \A n \in DOMAIN symbol_table :
               symbol_table[n] = LastLetValue(tokens, index, n)
        /\ ( /\ pc = "parse"
             /\ KindAt(tokens, index - 3) = "Exit"
             /\ KindAt(tokens, index - 2) = "OpenParen"
             /\ KindAt(tokens, index - 1) = "Identifier"
             /\ KindAt(tokens, index) = "CloseParen" ) =>
               exit_node = Some(NodeExit(NodeExpr(
                   LastLetValue(tokens, index - 4, tokens[index - 1].name))))

\* let x=1; let x=2; exit(x); has been parsed to the node of exit(2);
C3_Witness ==
    /\ pc = "done"
    /\ src = LetText(NameX, <<"1">>) \o LetText(NameX, <<"2">>) \o ExitText(NameX)
    /\ symbol_table = [n \in {NameX} |-> Two]
    /\ root = parse(tokenize(ExitSrc(Two))).root

\* position j holds the operand of an exit statement, a name that no let
\* statement before that exit statement binds
UndeclaredOperandAt(toks, j) ==
    /\ KindAt(toks, j - 2) = "Exit"
    /\ KindAt(toks, j - 1) = "OpenParen"
    /\ KindAt(toks, j) = "Identifier"
    /\ toks[j].name \notin BoundNames(toks, j - 3)

\* C4: when the operand of an exit statement is a name that no let before it
\* binds (a let after it does not count), the parser does not get past the
\* operand: it panics there with the undefined-variable message that carries
\* the name, and parse never returns a node.
C4_UndeclaredNameIsAnError ==
    \A j \in 1..Len(tokens) :
        UndeclaredOperandAt(tokens, j) =>
            /\ ~Returned
            /\ index >= j =>
                /\ pc = "panicked"
                /\ index = j
                /\ panic = Some([msg |-> UndefinedVariable, name |-> tokens[j].name])
                /\ root = None

\* exit(x); let x=1; has panicked on the x that is bound only afterwards
C4_Witness ==
    /\ pc = "panicked"
    /\ src = ExitText(NameX) \o LetText(NameX, <<"1">>)
    /\ panic = Some([msg |-> UndefinedVariable, name |-> NameX])
    /\ index = 3

\* the message that names an expected kind of token
ExpectedMessage(kind) ==
    CASE kind = "Identifier" -> ExpectedIdentifier
      [] kind = "Equals" -> ExpectedEquals
      [] kind = "IntLiteral" -> ExpectedInteger
      [] kind = "OpenParen" -> ExpectedOpenParen
      [] kind = "CloseParen" -> ExpectedCloseParen

\* with the cursor on a Let: the kind of the first of the three tokens after
\* it that is missing or of another kind than required, or "none"
MissingAfterLet(toks, idx) ==
    IF KindAt(toks, idx + 2) # "Identifier" THEN "Identifier"
    ELSE IF KindAt(toks, idx + 3) # "Equals" THEN "Equals"
    ELSE IF KindAt(toks, idx + 4) # "IntLiteral" THEN "IntLiteral"
    ELSE "none"

\* with the cursor on an Exit: OpenParen when the next token is not one;
\* CloseParen when an operand (a literal or a bound name) follows the
\* parenthesis and the token after the operand is not a CloseParen; or "none"
MissingAfterExit(toks, idx, table) ==
    IF KindAt(toks, idx + 2) # "OpenParen" THEN "OpenParen"
    ELSE IF /\ \/ KindAt(toks, idx + 3) = "IntLiteral"
               \/ /\ KindAt(toks, idx + 3) = "Identifier"
                  /\ toks[idx + 3].name \in DOMAIN table
            /\ KindAt(toks, idx + 4) # "CloseParen"
         THEN "CloseParen"
    ELSE "none"

\* the kind of token the statement under the cursor lacks, or "none"
Missing ==
    IF pc # "parse" THEN "none"
    ELSE IF KindAt(tokens, index + 1) = "Let" THEN MissingAfterLet(tokens, index)
    ELSE IF KindAt(tokens, index + 1) = "Exit"
         THEN MissingAfterExit(tokens, index, symbol_table)
    ELSE "none"

\* C5: when a place where the parser requires a kind of token (Identifier,
\* Equals, IntLiteral after Let; OpenParen after Exit; CloseParen after the
\* operand) holds another token or lies past the end of the sequence, the
\* step ends the parse with the error that names the expected kind: no node
\* is returned and the binding table is left as it was.
C5_MissingTokenIsNamed ==
    [][Missing # "none" =>
          /\ pc' = "panicked"
          /\ panic' = Panic(ExpectedMessage(Missing))
          /\ symbol_table' = symbol_table
          /\ root' = None]_vars

\* C5, for a place that holds a token of another kind (the sequence has not
\* ended there): the error names the expected kind
C5_WrongTokenIsNamed ==
    [][(Missing # "none" /\ pc' = "panicked" /\ index' <= Len(tokens)) =>
          /\ panic' = Panic(ExpectedMessage(Missing))
          /\ symbol_table' = symbol_table
          /\ root' = None]_vars

IsMaximalRun(text, a, b) ==
    /\ a <= b
    /\ \A i \in a..b : ~IsDelimiter(text[i])
    /\ a = 1 \/ IsDelimiter(text[a - 1])
    /\ b = Len(text) \/ IsDelimiter(text[b + 1])

MaximalRuns(text) ==
    {SubSeq(text, r[1], r[2]) :
        r \in {q \in (1..Len(text)) \X (1..Len(text)) : IsMaximalRun(text, q[1], q[2])}}

\* C7: the name of every Identifier token the Tokenizer emits is a maximal run
\* of non-delimiter characters of the source text, is neither keyword, and
\* does not parse as a 64-bit signed integer.
C7_IdentifierNames ==
    pc # "tokenize" =>
        \A j \in 1..Len(tokens) :
            tokens[j].kind = "Identifier" =>
                /\ tokens[j].name \in MaximalRuns(src)
                /\ tokens[j].name \notin {KwExit, KwLet}
                /\ ParseI64(tokens[j].name) = None

\* C7 for a source text without white space other than the delimiters
C7_IdentifierNamesWithoutTabs ==
    (pc # "tokenize" /\ \A i \in 1..Len(src) : src[i] \notin {"\t", "\r"}) =>
        \A j \in 1..Len(tokens) :
            tokens[j].kind = "Identifier" =>
                /\ tokens[j].name \in MaximalRuns(src)
                /\ tokens[j].name \notin {KwExit, KwLet}
                /\ ParseI64(tokens[j].name) = None

\* C9: parse halts.  Once the loop is entered, parse ends, with a node or in
\* an error.  While the loop runs the cursor is within the token sequence and
\* a step that changes the state is possible; a step of the loop either ends
\* it, which it does exactly when the cursor equals the length of the
\* sequence, and then parse returns a node, or it moves the cursor forward, by
\* a let statement, an exit statement or a skipped token, or into an error.
C9_ParseHalts ==
    /\ (pc = "parse") ~> (pc \in {"generate", "panicked"})
    /\ [](pc = "parse" => (index <= Len(tokens) /\ ENABLED <<Next>>_vars))
    /\ [][pc = "parse" =>
            /\ pc' \in {"parse", "panicked", "generate"}
            /\ pc' = "generate" <=> index = Len(tokens)
            /\ pc' = "generate" => (index' = index /\ root' # None)
            /\ pc' # "generate" => (index' > index /\ index' <= Len(tokens) + 1)
            /\ pc' = "panicked" <=> panic' # None]_vars

\* a let statement, a skipped token and an exit statement have been consumed,
\* and parse has returned at the end of the sequence
C9_Witness ==
    /\ pc = "generate"
    /\ src = LetText(NameX, <<"1">>) \o ExitText(NameX)
    /\ index = Len(tokens)
    /\ index = 10

\* the positions of the Exit tokens
ExitPositions(toks) == {j \in 1..Len(toks) : toks[j].kind = "Exit"}

\* the value of the operand at position j: a literal's value, or for a name
\* the value of the last let for it within the first k tokens
OperandValue(toks, j, k) ==
    IF toks[j].kind = "IntLiteral" THEN toks[j].value
    ELSE LastLetValue(toks, k, toks[j].name)

\* C10: when parse returns and the token sequence holds exit statements, the
\* node returned holds the operand of the last of them, a name resolved
\* against the let statements before that exit statement; what follows it,
\* a later let of the same name included, does not count.
C10_LastExitWins ==
    (Returned /\ ExitPositions(tokens) # {}) =>
        LET last == CHOOSE j \in ExitPositions(tokens) :
                        \A i \in ExitPositions(tokens) : i <= j
        IN  root = Some(NodeExit(NodeExpr(OperandValue(tokens, last + 2, last - 1))))

\* let x=1; exit(x); let x=2; has been parsed to the node of exit(1);
C10_Witness ==
    /\ pc = "done"
    /\ src = LetText(NameX, <<"1">>) \o ExitText(NameX) \o LetText(NameX, <<"2">>)
    /\ symbol_table = [n \in {NameX} |-> Two]
    /\ root = Some(NodeExit(NodeExpr(One)))

====
